---- MODULE Spec2Model ----
(***************************************************************************)
(* Model of the multi-tenant WhatsApp connection and delivery manager      *)
(* (Baileys variant: src/whatsapp.js, src/handlers.js).                    *)
(*                                                                         *)
(* The process-wide maps of the program are the variables; every event     *)
(* handler, HTTP handler and timer callback is one action.  sendMessage,   *)
(* which suspends on timers and on the protocol client, is one action per  *)
(* stretch between two suspensions, and so is the connection.update        *)
(* handler around QRCode.toDataURL.                                        *)
(***************************************************************************)
EXTENDS Integers, Sequences, FiniteSets, TLC

VARIABLES
  connections,            \* global.connections: merchantId -> connectionInfo
  qrCodes,                \* global.qrCodes: merchantId -> data URL
  messageStores,          \* global.messageStores: merchantId -> MessageStore
  messageSendTimestamps,  \* global.messageSendTimestamps: key string -> number
  deliveryConfirmations,  \* global.deliveryConfirmations: messageId -> record
  sessionFiles,           \* sessions/<merchantId> on disk
  sockets,                \* every socket makeWASocket has returned
  qrRenders,              \* connection.update handlers suspended in QRCode.toDataURL
  timers,                 \* pending setTimeout reconnect callbacks
  calls,                  \* sendMessage invocations, with what each did
  notified,               \* notifySupabase calls made by the last step
  response,               \* res.json / res.status of the last HTTP request
  nextMsgId,              \* the protocol client's message id generator
  now                     \* Date.now()

vars == <<connections, qrCodes, messageStores, messageSendTimestamps,
          deliveryConfirmations, sessionFiles, sockets, qrRenders, timers,
          calls, notified, response, nextMsgId, now>>

(***************************************************************************)
(* Bounds of the model.                                                    *)
(***************************************************************************)
\* MessageStore.maxMessages scaled down (the program's value is 1000); 9 is
\* the smallest capacity at which one cleanup removes more than one entry.
maxMessages == 9
\* Message ids the protocol client hands out: 1..MaxMsgId.
MaxMsgId == 12

Merchants == {"m1", "m2"}
Jids == {"j1@s.whatsapp.net", "j2@s.whatsapp.net"}

None == [undefined |-> TRUE]

(***************************************************************************)
(* A JavaScript Map: a sequence of <<key, value>> pairs in insertion       *)
(* order; set() of a present key replaces the value in place.              *)
(***************************************************************************)
\* Keys listed from the newest to the oldest.
MapKeysNewestFirst(m) == [i \in 1..Len(m) |-> m[Len(m) + 1 - i][1]]

MapKeys(m) == [i \in 1..Len(m) |-> m[i][1]]

MapHas(m, k) == \E i \in 1..Len(m) : m[i][1] = k

MapGet(m, k) ==
  IF MapHas(m, k) THEN m[CHOOSE i \in 1..Len(m) : m[i][1] = k][2] ELSE None

\* A map whose set() keeps the value of a present key.
MapSetKeep(m, k, v) == IF MapHas(m, k) THEN m ELSE Append(m, <<k, v>>)

\* A map whose set() moves a present key to the newest position.
MapSetMoveToEnd(m, k, v) == Append(SelectSeq(m, LAMBDA e : e[1] # k), <<k, v>>)

MapSet(m, k, v) ==
  IF MapHas(m, k)
    THEN [i \in 1..Len(m) |-> IF m[i][1] = k THEN <<k, v>> ELSE m[i]]
    ELSE Append(m, <<k, v>>)

MapDelete(m, k) == SelectSeq(m, LAMBDA e : e[1] # k)

MapSize(m) == Len(m)

(***************************************************************************)
(* class MessageStore                                                      *)
(***************************************************************************)
MessageStore(merchantId) ==
  [merchantId    |-> merchantId,
   messages      |-> <<>>,
   messagesByJid |-> <<>>,
   maxMessages   |-> maxMessages]

\* Cleanups that remove a tenth, or nothing.
tenthToRemove(store) == MapSize(store.messages) \div 10

noneToRemove(store) == 0

\* Math.floor(this.messages.size * 0.2)
messagesToRemove(store) == (MapSize(store.messages) * 2) \div 10

\* this.messagesByJid.get(jid)?.delete(messageId)
indexDelete(index, jid, messageId) ==
  IF MapHas(index, jid)
    THEN MapSet(index, jid, MapGet(index, jid) \ {messageId})
    ELSE index

\* One iteration of the loop of cleanup(), for messageIds[i].
cleanupStep(store, messageId) ==
  LET messageData == MapGet(store.messages, messageId)
      index == IF messageData # None
                 THEN indexDelete(store.messagesByJid,
                                  messageData.key.remoteJid, messageId)
                 ELSE store.messagesByJid
  IN  [store EXCEPT !.messagesByJid = index,
                    !.messages = MapDelete(@, messageId)]

RECURSIVE cleanupLoop(_, _, _, _)
cleanupLoop(store, messageIds, i, n) ==
  IF i < n
    THEN cleanupLoop(cleanupStep(store, messageIds[i + 1]), messageIds, i + 1, n)
    ELSE store

cleanup(store) ==
  cleanupLoop(store, MapKeys(store.messages), 0, messagesToRemove(store))

storeMessage(store, message) ==
  LET messageId == message.key.id
      jid == message.key.remoteJid
      messageData == [key              |-> message.key,
                      message          |-> message.message,
                      messageTimestamp |-> message.messageTimestamp]
      set == [store EXCEPT !.messages = MapSet(@, messageId, messageData)]
      withJid == IF MapHas(set.messagesByJid, jid)
                   THEN set
                   ELSE [set EXCEPT !.messagesByJid = MapSet(@, jid, {})]
      added == [withJid EXCEPT !.messagesByJid =
                  MapSet(@, jid, MapGet(@, jid) \cup {messageId})]
  IN  IF MapSize(added.messages) > added.maxMessages
        THEN cleanup(added)
        ELSE added

getMessage(store, key) == MapGet(store.messages, key.id)

(***************************************************************************)
(* The protocol client (Baileys), as far as the program sees it.           *)
(***************************************************************************)
\* DisconnectReason.*: lastDisconnect.error.output.statusCode of a close.
DisconnectReason == [loggedOut |-> "loggedOut",
                     connectionClosed |-> "connectionClosed",
                     connectionLost |-> "connectionLost"]
Reasons == {DisconnectReason.loggedOut, DisconnectReason.connectionClosed,
            DisconnectReason.connectionLost}

\* socket.user of a merchant's account: id is "<phone>:<device>@s.whatsapp.net",
\* kept here as the list id.split(':') gives.
SocketUser(merchantId) ==
  [id   |-> <<"52155500" \o merchantId, "7@s.whatsapp.net">>,
   name |-> "name-" \o merchantId]

\* QRCode.toDataURL(qr) of the qr string socket s emits.
toDataURL(s) == [dataUrl |-> "data:image/png;base64", qr |-> s]

Merchant(s) == sockets[s].merchantId

\* The delays of the reconnect timers.
TimerKinds == Merchants \X {1000, 3000}

SetSocket(s, field, value) == [sockets EXCEPT ![s][field] = value]

\* A socket that has ended emits nothing any more.
EndSocket(s) ==
  [sockets EXCEPT ![s] = [merchantId |-> @.merchantId, conn |-> "close",
                          paired |-> FALSE, qrShown |-> FALSE]]

(***************************************************************************)
(* createWhatsAppConnection(merchantId): a fresh MessageStore replaces the *)
(* merchant's store, the auth state is loaded from (or created in) the     *)
(* session directory, and a new socket is made.  Nothing is done to a      *)
(* socket the merchant already has.                                        *)
(***************************************************************************)
createWhatsAppConnection(merchantId) ==
  /\ messageStores' = [messageStores EXCEPT ![merchantId] = MessageStore(merchantId)]
  /\ sessionFiles' = [sessionFiles EXCEPT ![merchantId] =
                        IF @ = "absent" THEN "created" ELSE @]
  /\ sockets' = Append(sockets, [merchantId |-> merchantId,
                                 conn       |-> "connecting",
                                 paired     |-> sessionFiles[merchantId] = "paired",
                                 qrShown    |-> FALSE])

(***************************************************************************)
(* handlers.js                                                             *)
(***************************************************************************)
\* handleAuth without the check for an existing connection.
handleAuthAnew(merchantId) ==
  /\ response' = [request |-> "auth", merchantId |-> merchantId,
                  code |-> 200, status |-> "initializing"]
  /\ createWhatsAppConnection(merchantId)
  /\ notified' = <<>>
  /\ UNCHANGED <<connections, qrCodes, messageSendTimestamps,
                 deliveryConfirmations, qrRenders, timers, calls, nextMsgId, now>>

handleAuth(merchantId) ==
  LET existingConnection == connections[merchantId]
  IN  IF existingConnection # None /\ existingConnection.status = "connected"
        THEN /\ response' = [request |-> "auth", merchantId |-> merchantId,
                             code |-> 200, status |-> "already_connected"]
             /\ notified' = <<>>
             /\ UNCHANGED <<connections, qrCodes, messageStores,
                            messageSendTimestamps, deliveryConfirmations,
                            sessionFiles, sockets, qrRenders, timers, calls, nextMsgId, now>>
        ELSE /\ response' = [request |-> "auth", merchantId |-> merchantId,
                             code |-> 200, status |-> "initializing"]
             /\ createWhatsAppConnection(merchantId)
             /\ notified' = <<>>
             /\ UNCHANGED <<connections, qrCodes, messageSendTimestamps,
                            deliveryConfirmations, qrRenders, timers, calls, nextMsgId, now>>

(***************************************************************************)
(* socket.ev.on('connection.update')                                       *)
(***************************************************************************)
\* A notifier whose failed POST is thrown to the caller.
notifySupabaseThrows(merchantId, event, s, ok) ==
  [merchantId |-> merchantId, event |-> event, socket |-> s, threw |-> ~ok]

\* notifySupabase(merchantId, event, data) called by socket s's handlers.  ok
\* says whether axios.post goes through; its rejection is caught and logged,
\* so the call never throws to its caller.
notifySupabase(merchantId, event, s, ok) ==
  [merchantId |-> merchantId, event |-> event, socket |-> s, threw |-> FALSE]

\* What a handler's notifySupabase call can leave behind, over both
\* outcomes of the POST.
notifications(merchantId, event, s) ==
  {<<notifySupabase(merchantId, event, s, ok)>> : ok \in BOOLEAN}

\* update.qr: the handler suspends in QRCode.toDataURL.
QrEvent(s) ==
  /\ sockets[s].conn = "connecting"
  /\ ~sockets[s].paired
  /\ s \notin qrRenders
  /\ qrRenders' = qrRenders \cup {s}
  /\ notified' = <<>>
  /\ response' = None
  /\ UNCHANGED <<connections, qrCodes, messageStores, messageSendTimestamps,
                 deliveryConfirmations, sessionFiles, sockets, timers, calls, nextMsgId, now>>

\* QRCode.toDataURL settles: the code is stored and notified, or the error
\* is logged.
\* n is what the notifier call of the handler leaves behind.
onQr(s, rendered, n) ==
  /\ s \in qrRenders
  /\ qrRenders' = qrRenders \ {s}
  /\ IF rendered
       THEN /\ qrCodes' = [qrCodes EXCEPT ![Merchant(s)] = toDataURL(s)]
            /\ notified' = n
            /\ sockets' = SetSocket(s, "qrShown", TRUE)
       ELSE /\ notified' = <<>>
            /\ UNCHANGED <<qrCodes, sockets>>
  /\ response' = None
  /\ UNCHANGED <<connections, messageStores, messageSendTimestamps,
                 deliveryConfirmations, sessionFiles, timers, calls, nextMsgId, now>>

QrRendered(s, rendered) ==
  \E n \in notifications(Merchant(s), "qr_generated", s) : onQr(s, rendered, n)

\* connection === 'close' with a reason other than loggedOut: 1000 ms after
\* connectionClosed, 3000 ms otherwise.
reconnectDelay(disconnectReason) ==
  IF disconnectReason = DisconnectReason.connectionClosed THEN 1000 ELSE 3000

\* A close branch that sets its timer twice.
setTimeoutTwice(merchantId, delay) ==
  [timers EXCEPT ![<<merchantId, delay>>] = @ + 2]

\* timers[<<merchantId, delay>>] is the number of pending callbacks that will
\* call createWhatsAppConnection(merchantId) after delay ms.
setTimeout(merchantId, delay) ==
  [timers EXCEPT ![<<merchantId, delay>>] = @ + 1]

closeHandler(merchantId, disconnectReason, n) ==
  LET shouldReconnect == disconnectReason # DisconnectReason.loggedOut
  IN  IF shouldReconnect
        THEN /\ timers' = setTimeout(merchantId, reconnectDelay(disconnectReason))
             /\ notified' = <<>>
             /\ UNCHANGED <<connections, qrCodes, messageStores>>
        ELSE /\ connections' = [connections EXCEPT ![merchantId] = None]
             /\ qrCodes' = [qrCodes EXCEPT ![merchantId] = None]
             /\ messageStores' = [messageStores EXCEPT ![merchantId] = None]
             /\ notified' = n
             /\ UNCHANGED timers

onClose(s, disconnectReason, n) ==
  /\ sockets[s].conn \in {"connecting", "open"}
  /\ sockets' = EndSocket(s)
  /\ closeHandler(Merchant(s), disconnectReason, n)
  /\ response' = None
  /\ UNCHANGED <<messageSendTimestamps, deliveryConfirmations, sessionFiles,
                 qrRenders, calls, nextMsgId, now>>

CloseEvent(s, disconnectReason) ==
  \E n \in notifications(Merchant(s), "disconnected", 0) :
    onClose(s, disconnectReason, n)

\* The registry entry the open branch writes for socket s.
connectionInfo(s, merchantId) ==
  LET userInfo == [id    |-> SocketUser(merchantId).id,
                   name  |-> SocketUser(merchantId).name,
                   phone |-> Head(SocketUser(merchantId).id)]
  IN  [socket   |-> s,
       status   |-> "connected",
       phone    |-> userInfo.phone,
       pushName |-> userInfo.name]

\* connection === 'open'.  The scan that precedes it pairs the session
\* (creds.update -> saveCreds).
onOpen(s, n) ==
  LET merchantId == Merchant(s)
  IN  /\ sockets[s].conn = "connecting"
      /\ sockets[s].paired \/ sockets[s].qrShown
      /\ sockets' = SetSocket(s, "conn", "open")
      /\ connections' = [connections EXCEPT ![merchantId] = connectionInfo(s, merchantId)]
      /\ qrCodes' = [qrCodes EXCEPT ![merchantId] = None]
      /\ notified' = n
      /\ sessionFiles' = [sessionFiles EXCEPT ![merchantId] = "paired"]
      /\ response' = None
      /\ UNCHANGED <<messageStores, messageSendTimestamps, deliveryConfirmations,
                     qrRenders, timers, calls, nextMsgId, now>>

OpenEvent(s) ==
  \E n \in notifications(Merchant(s), "connected", s) : onOpen(s, n)

\* The setTimeout callback of a recoverable close, once its delay is over.
ReconnectTimer(t) ==
  /\ timers[t] > 0
  /\ timers' = [timers EXCEPT ![t] = @ - 1]
  /\ createWhatsAppConnection(t[1])
  /\ notified' = <<>>
  /\ response' = None
  /\ UNCHANGED <<connections, qrCodes, messageSendTimestamps,
                 deliveryConfirmations, qrRenders, calls, nextMsgId, now>>

(***************************************************************************)
(* socket.ev.on('messages.upsert'), one message per event.                 *)
(***************************************************************************)
\* The message_received notifications the handler makes for a message.
messageReceived(s, message, ok) ==
  IF ~message.key.fromMe /\ message.message # ""
    THEN <<[merchantId |-> Merchant(s), event |-> "message_received",
            socket |-> s, messageId |-> message.key.id,
            from |-> message.key.remoteJid,
            timestamp |-> message.messageTimestamp,
            threw |-> notifySupabase(Merchant(s), "message_received", s, ok).threw]>>
    ELSE <<>>

onMessagesUpsert(s, message, n) ==
  LET merchantId == Merchant(s)
      messageStore == messageStores[merchantId]
  IN  /\ sockets[s].conn = "open"
      /\ notified' = n
      /\ messageStores' =
           IF messageStore # None
             THEN [messageStores EXCEPT ![merchantId] =
                     storeMessage(messageStore, message)]
             ELSE messageStores
      /\ nextMsgId' = IF message.key.id = nextMsgId THEN nextMsgId + 1 ELSE nextMsgId
      /\ response' = None
      /\ UNCHANGED <<connections, qrCodes, messageSendTimestamps,
                     deliveryConfirmations, sessionFiles, sockets, qrRenders,
                     timers, calls, now>>

MessagesUpsert(s, message) ==
  \E n \in {messageReceived(s, message, ok) : ok \in BOOLEAN} :
    onMessagesUpsert(s, message, n)

(***************************************************************************)
(* A plain-object / keyed Map whose order does not matter: a function.     *)
(***************************************************************************)
Put(f, k, v) == [x \in DOMAIN f \cup {k} |-> IF x = k THEN v ELSE f[x]]

Empty == [x \in {} |-> 0]

(***************************************************************************)
(* socket.ev.on('message-receipt.update'), one update per event.           *)
(***************************************************************************)
Receipts == {[type |-> "delivery", deliveryTimestamp |-> 0, readTimestamp |-> 0],
             [type |-> "read", deliveryTimestamp |-> 0, readTimestamp |-> 0],
             [type |-> "played", deliveryTimestamp |-> 0, readTimestamp |-> 0]}

receiptStatus(confirmation, receipt) ==
  IF receipt.type = "delivery" \/ receipt.deliveryTimestamp # 0
    THEN "delivered"
    ELSE IF receipt.type = "read" \/ receipt.readTimestamp # 0
           THEN "read"
           ELSE confirmation.status

ReceiptUpdate(s, messageId, receipt) ==
  /\ sockets[s].conn = "open"
  /\ deliveryConfirmations' =
       IF messageId \in DOMAIN deliveryConfirmations
         THEN [deliveryConfirmations EXCEPT ![messageId].status =
                 receiptStatus(deliveryConfirmations[messageId], receipt)]
         ELSE deliveryConfirmations
  /\ notified' = <<>>
  /\ response' = None
  /\ UNCHANGED <<connections, qrCodes, messageStores, messageSendTimestamps,
                 sessionFiles, sockets, qrRenders, timers, calls, nextMsgId, now>>

(***************************************************************************)
(* sendMessage(merchantId, to, message, options)                           *)
(***************************************************************************)
MIN_DELAY_MS == 2000
DELIVERY_TIMEOUT_MS == 5000

lastSentKey(merchantId, to) == merchantId \o ":" \o to

errorKey(merchantId, to) == merchantId \o ":" \o to \o ":error"

\* A ledger that is never read.
lastSentNever(key) == 0

\* global.messageSendTimestamps.get(key) || 0
lastSentTime(key) ==
  IF key \in DOMAIN messageSendTimestamps THEN messageSendTimestamps[key] ELSE 0

\* The catch block: the failure counter lives in messageSendTimestamps.
trackFailure(timestamps, merchantId, to) ==
  LET key == errorKey(merchantId, to)
      errorCount == (IF key \in DOMAIN timestamps THEN timestamps[key] ELSE 0) + 1
  IN  Put(timestamps, key, errorCount)

NewCall(merchantId, to, waitForDelivery) ==
  [merchantId |-> merchantId, to |-> to, waitForDelivery |-> waitForDelivery,
   pc |-> "start", startTime |-> now, socket |-> 0, wake |-> 0, sentAt |-> 0,
   sends |-> 0, messageId |-> 0, deadline |-> 0, confirmed |-> FALSE,
   error |-> "", result |-> None,
   \* the calls that had reached socket.sendMessage when this one was made
   after |-> {c \in 1..Len(calls) : calls[c].sends > 0}]

\* The object sendMessage returns (result.messageTimestamp, the protocol
\* client's own value, is left out).
returned(call, messageId) ==
  [success          |-> TRUE,
   messageId        |-> messageId,
   deliveryWaitTime |-> now - call.startTime,
   rateLimit        |-> [applied  |-> call.wake # 0,
                         waitTime |-> IF call.wake # 0
                                        THEN call.wake - call.startTime ELSE 0]]

\* "Update timestamp BEFORE sending", then connection.socket.sendMessage.
dispatch(call) ==
  [call EXCEPT !.pc = "sending", !.sentAt = now, !.sends = @ + 1]

\* From the call to the first suspension.
SendStart(merchantId, to, waitForDelivery) ==
  LET connection == connections[merchantId]
      call == NewCall(merchantId, to, waitForDelivery)
      key == lastSentKey(merchantId, to)
      timeSinceLastMessage == now - lastSentTime(key)
  IN  /\ IF connection = None
           THEN /\ calls' = Append(calls,
                       [call EXCEPT !.pc = "failed",
                                    !.error = "WhatsApp not connected for this merchant"])
                /\ messageSendTimestamps' =
                     trackFailure(messageSendTimestamps, merchantId, to)
           ELSE IF timeSinceLastMessage < MIN_DELAY_MS
                  THEN /\ calls' = Append(calls,
                              [call EXCEPT !.pc = "waiting",
                                           !.socket = connection.socket,
                                           !.wake = now + (MIN_DELAY_MS - timeSinceLastMessage)])
                       /\ UNCHANGED messageSendTimestamps
                  ELSE /\ calls' = Append(calls,
                              dispatch([call EXCEPT !.socket = connection.socket]))
                       /\ messageSendTimestamps' = Put(messageSendTimestamps, key, now)
      /\ notified' = <<>>
      /\ response' = None
      /\ UNCHANGED <<connections, qrCodes, messageStores, deliveryConfirmations,
                     sessionFiles, sockets, qrRenders, timers, nextMsgId, now>>

\* The rate-limit setTimeout resolves.
SendWake(c) ==
  /\ c \in 1..Len(calls)
  /\ calls[c].pc = "waiting"
  /\ calls[c].wake <= now
  /\ calls' = [calls EXCEPT ![c] = dispatch(@)]
  /\ messageSendTimestamps' =
       Put(messageSendTimestamps, lastSentKey(calls[c].merchantId, calls[c].to), now)
  /\ notified' = <<>>
  /\ response' = None
  /\ UNCHANGED <<connections, qrCodes, messageStores, deliveryConfirmations,
                 sessionFiles, sockets, qrRenders, timers, nextMsgId,
                 now>>

\* connection.socket.sendMessage settles; a closed socket rejects.
SendResult(c, accepted) ==
  /\ c \in 1..Len(calls)
  /\ calls[c].pc = "sending"
  /\ accepted => sockets[calls[c].socket].conn = "open"
  /\ IF accepted
       THEN /\ calls' = [calls EXCEPT
                 ![c].messageId = nextMsgId,
                 ![c].deadline = now + DELIVERY_TIMEOUT_MS,
                 ![c].pc = IF calls[c].waitForDelivery THEN "awaitDelivery" ELSE "done",
                 ![c].result = IF calls[c].waitForDelivery
                                 THEN None ELSE returned(calls[c], nextMsgId)]
            /\ deliveryConfirmations' =
                 Put(deliveryConfirmations, nextMsgId,
                     [status |-> "sent", timestamp |-> now,
                      merchantId |-> calls[c].merchantId, to |-> calls[c].to])
            /\ nextMsgId' = nextMsgId + 1
            /\ UNCHANGED messageSendTimestamps
       ELSE /\ calls' = [calls EXCEPT ![c].pc = "failed", ![c].error = "send rejected"]
            /\ messageSendTimestamps' =
                 trackFailure(messageSendTimestamps, calls[c].merchantId, calls[c].to)
            /\ UNCHANGED <<deliveryConfirmations, nextMsgId>>
  /\ notified' = <<>>
  /\ response' = None
  /\ UNCHANGED <<connections, qrCodes, messageStores, sessionFiles, sockets,
                 qrRenders, timers, now>>

\* A tick of the 100 ms setInterval that finds the record delivered.
SendDeliveryCheck(c) ==
  /\ c \in 1..Len(calls)
  /\ calls[c].pc = "awaitDelivery"
  /\ now < calls[c].deadline
  /\ calls[c].messageId \in DOMAIN deliveryConfirmations
  /\ deliveryConfirmations[calls[c].messageId].status = "delivered"
  /\ calls' = [calls EXCEPT ![c].pc = "done", ![c].confirmed = TRUE,
                            ![c].result = returned(calls[c], calls[c].messageId)]
  /\ notified' = <<>>
  /\ response' = None
  /\ UNCHANGED <<connections, qrCodes, messageStores, messageSendTimestamps,
                 deliveryConfirmations, sessionFiles, sockets, qrRenders, timers,
                 nextMsgId, now>>

\* A delivery wait whose setTimeout never fires.
SendDeliveryNoTimeout(c) ==
  /\ c \in 1..Len(calls)
  /\ FALSE
  /\ UNCHANGED vars

\* The 5000 ms setTimeout wins the race.
SendDeliveryTimeout(c) ==
  /\ c \in 1..Len(calls)
  /\ calls[c].pc = "awaitDelivery"
  /\ calls[c].deadline <= now
  /\ calls' = [calls EXCEPT ![c].pc = "done",
                            ![c].result = returned(calls[c], calls[c].messageId)]
  /\ notified' = <<>>
  /\ response' = None
  /\ UNCHANGED <<connections, qrCodes, messageStores, messageSendTimestamps,
                 deliveryConfirmations, sessionFiles, sockets, qrRenders, timers,
                 nextMsgId, now>>

(***************************************************************************)
(* handlers.js: handleMessage and handleDisconnect                         *)
(***************************************************************************)
IsDigit(ch) == ch \in {"0", "1", "2", "3", "4", "5", "6", "7", "8", "9"}

RECURSIVE Join(_)
Join(chars) == IF chars = <<>> THEN "" ELSE Head(chars) \o Join(Tail(chars))

\* to.replace(/\D/g, '') + '@s.whatsapp.net'; `to` is a list of characters.
formattedTo(to) == Join(SelectSeq(to, IsDigit)) \o "@s.whatsapp.net"

\* The options of a sendMessage call: waitForDelivery is "true", "false" or
\* "undefined"; sendMessage(merchantId, to, message) has options = {}.
NoOptions == [waitForDelivery |-> "undefined"]

\* options.waitForDelivery !== false
waitsForDelivery(options) == options.waitForDelivery # "false"

\* handleMessage calls sendMessage(merchantId, formattedTo, message).
handleMessage(merchantId, to) ==
  SendStart(merchantId, formattedTo(to), waitsForDelivery(NoOptions))

\* socket.logout() ends the socket with reason loggedOut, which runs the
\* close branch of its connection.update handler; it throws on a socket
\* that is not open, and may throw on one that is.
handleDisconnect(merchantId, logoutOk) ==
  LET connection == connections[merchantId]
  IN  /\ logoutOk =>
           connection # None /\ sockets[connection.socket].conn = "open"
      /\ IF connection # None /\ ~logoutOk
           THEN /\ response' = [request |-> "disconnect", merchantId |-> merchantId,
                                code |-> 500, status |-> "Failed to disconnect WhatsApp"]
                /\ notified' = <<>>
                /\ UNCHANGED <<connections, qrCodes, messageStores, sessionFiles,
                               sockets>>
           ELSE /\ response' = [request |-> "disconnect", merchantId |-> merchantId,
                                code |-> 200, status |-> "disconnected"]
                /\ connections' = [connections EXCEPT ![merchantId] = None]
                /\ qrCodes' = [qrCodes EXCEPT ![merchantId] = None]
                /\ sessionFiles' = [sessionFiles EXCEPT ![merchantId] = "absent"]
                /\ IF connection # None
                     THEN /\ sockets' = EndSocket(connection.socket)
                          /\ messageStores' = [messageStores EXCEPT ![merchantId] = None]
                          /\ notified' \in notifications(merchantId, "disconnected", 0)
                     ELSE /\ notified' = <<>>
                          /\ UNCHANGED <<sockets, messageStores>>
      /\ UNCHANGED <<messageSendTimestamps, deliveryConfirmations, qrRenders,
                     timers, calls, nextMsgId, now>>

(***************************************************************************)
(* Time.  Date.now() starts at StartTime and advances a Quantum at a time. *)
(***************************************************************************)
Quantum == MIN_DELAY_MS \div 2

StartTime == 5 * MIN_DELAY_MS

\* The clock runs for MaxTicks quanta, and beyond them only up to a timer of
\* a sendMessage call.
MaxTicks == 3

\* The instants the pending timers of the sendMessage calls are set for.
TimerInstants ==
  {calls[c].wake : c \in {i \in 1..Len(calls) : calls[i].pc = "waiting"}}
    \cup {calls[c].deadline : c \in {i \in 1..Len(calls) : calls[i].pc = "awaitDelivery"}}

Tick(t) ==
  /\ t > now
  /\ \/ t = now + Quantum /\ t <= StartTime + MaxTicks * Quantum
     \/ t \in TimerInstants
  /\ now' = t
  /\ notified' = <<>>
  /\ response' = None
  /\ UNCHANGED <<connections, qrCodes, messageStores, messageSendTimestamps,
                 deliveryConfirmations, sessionFiles, sockets, qrRenders, timers,
                 calls, nextMsgId>>

IsConnected(merchantId) ==
  connections[merchantId] # None /\ connections[merchantId].status = "connected"

(***************************************************************************)
(* Spec: the lifecycle of the merchants' sessions, from an empty server.   *)
(***************************************************************************)
\* Sockets made in one run.
MaxSockets == 2

Init ==
  /\ connections = [m \in Merchants |-> None]
  /\ qrCodes = [m \in Merchants |-> None]
  /\ messageStores = [m \in Merchants |-> None]
  /\ messageSendTimestamps = Empty
  /\ deliveryConfirmations = Empty
  /\ sessionFiles = [m \in Merchants |-> "absent"]
  /\ sockets = <<>>
  /\ qrRenders = {}
  /\ timers = [t \in TimerKinds |-> 0]
  /\ calls = <<>>
  /\ notified = <<>>
  /\ response = None
  /\ nextMsgId = 1
  /\ now = StartTime

Next ==
  \/ \E m \in Merchants :
       /\ IsConnected(m) \/ Len(sockets) < MaxSockets
       /\ handleAuth(m)
  \/ \E s \in 1..Len(sockets) : QrEvent(s)
  \/ \E s \in 1..Len(sockets), rendered \in BOOLEAN : QrRendered(s, rendered)
  \/ \E s \in 1..Len(sockets) : OpenEvent(s)
  \/ \E s \in 1..Len(sockets), r \in Reasons : CloseEvent(s, r)
  \/ \E t \in TimerKinds : Len(sockets) < MaxSockets /\ ReconnectTimer(t)
  \/ \E m \in Merchants, ok \in BOOLEAN : handleDisconnect(m, ok)

Spec == Init /\ [][Next]_vars

(***************************************************************************)
(* SpecSend: sendMessage and the receipts, with every merchant's session   *)
(* open at the start (each has gone through handleAuth, a QR and an open   *)
(* event); sockets may close.                                              *)
(***************************************************************************)
\* sendMessage calls in one run.
MaxCalls == 2

RawRecipients == {<<"5", "1">>, <<"+", "5", "1">>}

\* The i-th merchant owns socket i.
RECURSIVE SetToSeq(_)
SetToSeq(S) ==
  IF S = {} THEN <<>>
  ELSE LET x == CHOOSE y \in S : TRUE IN <<x>> \o SetToSeq(S \ {x})

MerchantSeq == SetToSeq(Merchants)

SocketOf(merchantId) ==
  CHOOSE i \in 1..Len(MerchantSeq) : MerchantSeq[i] = merchantId

InitSend ==
  /\ connections = [m \in Merchants |-> connectionInfo(SocketOf(m), m)]
  /\ qrCodes = [m \in Merchants |-> None]
  /\ messageStores = [m \in Merchants |-> MessageStore(m)]
  /\ messageSendTimestamps = Empty
  /\ deliveryConfirmations = Empty
  /\ sessionFiles = [m \in Merchants |-> "paired"]
  /\ sockets = [i \in 1..Len(MerchantSeq) |->
                  [merchantId |-> MerchantSeq[i], conn |-> "open",
                   paired |-> FALSE, qrShown |-> TRUE]]
  /\ qrRenders = {}
  /\ timers = [t \in TimerKinds |-> 0]
  /\ calls = <<>>
  /\ notified = <<>>
  /\ response = None
  /\ nextMsgId = 1
  /\ now = StartTime

NextSend ==
  \/ \E m \in Merchants, to \in RawRecipients :
       Len(calls) < MaxCalls /\ handleMessage(m, to)
  \/ \E c \in 1..Len(calls) : SendWake(c)
  \/ \E c \in 1..Len(calls), accepted \in BOOLEAN : SendResult(c, accepted)
  \/ \E s \in 1..Len(sockets), id \in 1..(nextMsgId - 1), r \in Receipts :
       ReceiptUpdate(s, id, r)
  \/ \E c \in 1..Len(calls) : SendDeliveryCheck(c)
  \/ \E c \in 1..Len(calls) : SendDeliveryTimeout(c)
  \/ \E t \in TimerInstants \cup {now + Quantum} : Tick(t)

SpecSend == InitSend /\ [][NextSend]_vars

(***************************************************************************)
(* SpecBurst: sendMessage calls of one merchant to one recipient that do   *)
(* not wait for the delivery.                                              *)
(***************************************************************************)
\* sendMessage calls in one burst.
MaxBurst == 3

NextBurst ==
  \/ /\ Len(calls) < MaxBurst
     /\ SendStart(MerchantSeq[1], formattedTo(<<"5", "1">>), FALSE)
  \/ \E c \in 1..Len(calls) : SendWake(c)
  \/ \E c \in 1..Len(calls), accepted \in BOOLEAN : SendResult(c, accepted)
  \/ \E t \in TimerInstants \cup {now + Quantum} : Tick(t)

SpecBurst == InitSend /\ [][NextBurst]_vars

(***************************************************************************)
(* SpecLive: the lifecycle of Spec with sendMessage calls made during it.  *)
(***************************************************************************)
\* sendMessage calls in one run of SpecLive.
MaxLiveCalls == 1

NextLive ==
  \/ Next
  \/ \E m \in Merchants, to \in RawRecipients :
       Len(calls) < MaxLiveCalls /\ handleMessage(m, to)
  \/ \E c \in 1..Len(calls), accepted \in BOOLEAN : SendResult(c, accepted)

SpecLive == Init /\ [][NextLive]_vars

(***************************************************************************)
(* SpecCache: the MessageStore of one open session under messages.upsert.  *)
(* A new message carries the next message id; a message may arrive again,  *)
(* with another payload and possibly in another chat.                      *)
(***************************************************************************)
\* Stored entries that a later upsert of the same id has replaced.
MaxRestores == 1

JidSeq == SetToSeq(Jids)

FirstUpsert(id) ==
  [key |-> [id |-> id, remoteJid |-> JidSeq[(id % Len(JidSeq)) + 1], fromMe |-> FALSE],
   message |-> "p1", messageTimestamp |-> 1]

SecondUpsert(id, jid) ==
  [key |-> [id |-> id, remoteJid |-> jid, fromMe |-> FALSE],
   message |-> "p2", messageTimestamp |-> 2]

Restored(store) ==
  {i \in 1..Len(store.messages) : store.messages[i][2].message = "p2"}

InitCache ==
  /\ connections = [m \in Merchants |->
                      IF SocketOf(m) = 1 THEN connectionInfo(1, m) ELSE None]
  /\ qrCodes = [m \in Merchants |-> None]
  /\ messageStores = [m \in Merchants |->
                        IF SocketOf(m) = 1 THEN MessageStore(m) ELSE None]
  /\ messageSendTimestamps = Empty
  /\ deliveryConfirmations = Empty
  /\ sessionFiles = [m \in Merchants |->
                       IF SocketOf(m) = 1 THEN "paired" ELSE "absent"]
  /\ sockets = <<[merchantId |-> MerchantSeq[1], conn |-> "open",
                  paired |-> FALSE, qrShown |-> TRUE]>>
  /\ qrRenders = {}
  /\ timers = [t \in TimerKinds |-> 0]
  /\ calls = <<>>
  /\ notified = <<>>
  /\ response = None
  /\ nextMsgId = 1
  /\ now = StartTime

NextCache ==
  \/ /\ nextMsgId <= MaxMsgId
     /\ MessagesUpsert(1, FirstUpsert(nextMsgId))
  \/ \E id \in 1..(nextMsgId - 1), jid \in Jids :
       LET store == messageStores[Merchant(1)]
       IN  /\ MapHas(store.messages, id)
           /\ \/ MapGet(store.messages, id).message = "p2"
              \/ Cardinality(Restored(store)) < MaxRestores
           /\ MessagesUpsert(1, SecondUpsert(id, jid))

SpecCache == InitCache /\ [][NextCache]_vars

(***************************************************************************)
(* The whatsapp-web.js variant (src/whatsapp-web.js, src/server-web.js).   *)
(* It runs as a server of its own; its state is held in the same           *)
(* variables: connections is global.whatsappClients, sessionFiles the      *)
(* wa-sessions directory, sockets the Client objects made so far, timers   *)
(* the pending retry timers of the watchdog per merchant, notified the     *)
(* updateDatabaseStatus calls of the last step.                            *)
(***************************************************************************)
\* One attempt more than the loop allows.
maxRetriesPlusOne == 3 + 1

maxRetries == 3

\* A wipe that leaves everything in place.
forceCleanNothing(merchantId) ==
  UNCHANGED <<sessionFiles, connections, qrCodes>>

forceCleanSession(merchantId) ==
  /\ sessionFiles' = [sessionFiles EXCEPT ![merchantId] = "absent"]
  /\ connections' = [connections EXCEPT ![merchantId] = None]
  /\ qrCodes' = [qrCodes EXCEPT ![merchantId] = None]

\* updateDatabaseStatus(merchantId, status, ...) made by client c's code.
updateDatabaseStatus(merchantId, status, c) ==
  <<[merchantId |-> merchantId, event |-> status, socket |-> c]>>

\* new Client(...) and the first client.initialize().  conn is where the
\* createWhatsAppConnection call that made the client stands ("initializing",
\* "waitRetry", "failed" once it has thrown) and, after it has returned,
\* the client's own state; armed says that its connectionTimeout is pending.
NewClient(merchantId) ==
  [merchantId |-> merchantId, conn |-> "initializing",
   initRetries |-> 0, qrShown |-> FALSE, armed |-> FALSE]

\* createWhatsAppConnection up to its first await client.initialize().
webCreateWhatsAppConnection(merchantId) ==
  /\ forceCleanSession(merchantId)
  /\ notified' = updateDatabaseStatus(merchantId, "connecting", Len(sockets) + 1)
  /\ sockets' = Append(sockets, NewClient(merchantId))

\* POST /auth/start.  A registered client is always connected, so the
\* cleanup before the new connection finds no client to destroy.
authStart(merchantId) ==
  LET existingConnection == connections[merchantId]
  IN  /\ IF existingConnection # None /\ existingConnection.status = "connected"
           THEN /\ response' = [request |-> "auth", merchantId |-> merchantId,
                                code |-> 200, status |-> "already_connected"]
                /\ notified' = <<>>
                /\ UNCHANGED <<connections, qrCodes, sessionFiles, sockets>>
           ELSE /\ response' = None
                /\ webCreateWhatsAppConnection(merchantId)
      /\ UNCHANGED <<messageStores, messageSendTimestamps, deliveryConfirmations,
                     qrRenders, timers, calls, nextMsgId, now>>

\* await client.initialize() settles.  A success arms the 60 s watchdog and
\* returns the client; the third failure goes to the catch block, which
\* reports connection_failed, wipes the session and rethrows; an earlier
\* failure starts the 3 s wait.  (The answer POST /auth/start gives after
\* the call is not modelled.)
WebInitResult(c, ok) ==
  LET client == sockets[c]
      merchantId == client.merchantId
      initRetries == client.initRetries + 1
  IN  /\ client.conn = "initializing"
      /\ IF ok
           THEN /\ sockets' = [sockets EXCEPT ![c].conn = "started",
                                              ![c].initRetries = 0,
                                              ![c].armed = TRUE]
                /\ notified' = <<>>
                /\ UNCHANGED <<sessionFiles, connections, qrCodes>>
           ELSE IF initRetries >= maxRetries
                  THEN /\ sockets' = [sockets EXCEPT ![c].conn = "failed",
                                                     ![c].initRetries = initRetries,
                                                     ![c].qrShown = FALSE]
                       /\ notified' = updateDatabaseStatus(merchantId, "connection_failed", c)
                       /\ forceCleanSession(merchantId)
                  ELSE /\ sockets' = [sockets EXCEPT ![c].conn = "waitRetry",
                                                     ![c].initRetries = initRetries]
                       /\ notified' = <<>>
                       /\ UNCHANGED <<sessionFiles, connections, qrCodes>>
      /\ response' = None
      /\ UNCHANGED <<messageStores, messageSendTimestamps, deliveryConfirmations,
                     qrRenders, timers, calls, nextMsgId, now>>

\* The 3 s wait is over: the session is wiped and client.initialize() is
\* called again.
WebRetry(c) ==
  /\ sockets[c].conn = "waitRetry"
  /\ forceCleanSession(sockets[c].merchantId)
  /\ sockets' = [sockets EXCEPT ![c].conn = "initializing"]
  /\ notified' = <<>>
  /\ response' = None
  /\ UNCHANGED <<messageStores, messageSendTimestamps, deliveryConfirmations,
                 qrRenders, timers, calls, nextMsgId, now>>

\* What the qr handler stores: the rendered image, or the raw code when
\* QRCode.toDataURL throws.
qrStored(c, rendered) ==
  IF rendered THEN toDataURL(c) ELSE [dataUrl |-> "data:text/plain;base64", qr |-> c]

\* client.on('qr'), both handlers.
WebQr(c, rendered) ==
  LET merchantId == sockets[c].merchantId
  IN  /\ sockets[c].conn \in {"initializing", "started"}
      /\ qrCodes' = [qrCodes EXCEPT ![merchantId] = qrStored(c, rendered)]
      /\ notified' = updateDatabaseStatus(
                        merchantId,
                        IF rendered THEN "waiting_for_qr_scan" ELSE "qr_generation_failed",
                        c)
      /\ sockets' = [sockets EXCEPT ![c].qrShown = TRUE,
                                    ![c].armed = FALSE]
      /\ response' = None
      /\ UNCHANGED <<connections, messageStores, messageSendTimestamps,
                     deliveryConfirmations, sessionFiles, qrRenders, timers, calls,
                     nextMsgId, now>>

\* client.on('ready'), both handlers; the scan before it has written the
\* session.
WebReady(c) ==
  LET merchantId == sockets[c].merchantId
  IN  /\ sockets[c].conn = "started"
      /\ sockets[c].qrShown
      /\ connections' = [connections EXCEPT ![merchantId] =
                           [client   |-> c,
                            status   |-> "connected",
                            phone    |-> Head(SocketUser(merchantId).id),
                            pushName |-> SocketUser(merchantId).name]]
      /\ qrCodes' = [qrCodes EXCEPT ![merchantId] = None]
      /\ sessionFiles' = [sessionFiles EXCEPT ![merchantId] = "paired"]
      /\ notified' = updateDatabaseStatus(merchantId, "connected", c)
      /\ sockets' = [sockets EXCEPT ![c].conn = "ready",
                                    ![c].qrShown = FALSE,
                                    ![c].armed = FALSE]
      /\ response' = None
      /\ UNCHANGED <<messageStores, messageSendTimestamps, deliveryConfirmations,
                     qrRenders, timers, calls, nextMsgId, now>>

\* client.on('disconnected')
WebDisconnected(c) ==
  LET merchantId == sockets[c].merchantId
  IN  /\ sockets[c].conn = "ready"
      /\ sockets' = [sockets EXCEPT ![c].conn = "disconnected"]
      /\ connections' = [connections EXCEPT ![merchantId] = None]
      /\ qrCodes' = [qrCodes EXCEPT ![merchantId] = None]
      /\ notified' = updateDatabaseStatus(merchantId, "disconnected", c)
      /\ response' = None
      /\ UNCHANGED <<messageStores, messageSendTimestamps, deliveryConfirmations,
                     sessionFiles, qrRenders, timers, calls, nextMsgId, now>>

\* A watchdog that restarts whatever it finds.
WebWatchdogAlways(c) ==
  LET merchantId == sockets[c].merchantId
  IN  /\ sockets[c].armed
      /\ forceCleanSession(merchantId)
      /\ notified' = updateDatabaseStatus(merchantId, "connection_timeout", c)
      /\ sockets' = [sockets EXCEPT ![c].armed = FALSE,
                                    ![c].qrShown = FALSE,
                                    ![c].conn = "destroyed"]
      /\ timers' = [timers EXCEPT ![merchantId] = @ + 1]
      /\ response' = None
      /\ UNCHANGED <<messageStores, messageSendTimestamps, deliveryConfirmations,
                     qrRenders, calls, nextMsgId, now>>

\* The connectionTimeout callback, 60 s after client.initialize() resolved.
WebWatchdog(c) ==
  LET merchantId == sockets[c].merchantId
      hasQr == qrCodes[merchantId] # None
      hasConnection == connections[merchantId] # None
  IN  /\ sockets[c].armed
      /\ IF ~hasQr /\ ~hasConnection
           THEN /\ forceCleanSession(merchantId)
                /\ notified' = updateDatabaseStatus(merchantId, "connection_timeout", c)
                /\ sockets' = [sockets EXCEPT ![c].armed = FALSE,
                                              ![c].qrShown = FALSE,
                                              ![c].conn = "destroyed"]
                /\ timers' = [timers EXCEPT ![merchantId] = @ + 1]
           ELSE /\ notified' = <<>>
                /\ sockets' = [sockets EXCEPT ![c].armed = FALSE]
                /\ UNCHANGED <<sessionFiles, connections, qrCodes, timers>>
      /\ response' = None
      /\ UNCHANGED <<messageStores, messageSendTimestamps, deliveryConfirmations,
                     qrRenders, calls, nextMsgId, now>>

\* The watchdog's retry, 2 s after it fired.
WebRetryTimer(merchantId) ==
  /\ timers[merchantId] > 0
  /\ timers' = [timers EXCEPT ![merchantId] = @ - 1]
  /\ webCreateWhatsAppConnection(merchantId)
  /\ response' = None
  /\ UNCHANGED <<messageStores, messageSendTimestamps, deliveryConfirmations,
                 qrRenders, calls, nextMsgId, now>>

\* disconnectClient(merchantId), called by POST /auth/disconnect.  logoutOk
\* says whether client.logout() and client.destroy() go through.  The
\* deletions of both branches are those forceCleanSession repeats.
disconnectClient(merchantId, logoutOk) ==
  LET connection == connections[merchantId]
  IN  /\ forceCleanSession(merchantId)
      /\ IF connection # None
           THEN IF logoutOk
                  THEN /\ sockets' = [sockets EXCEPT ![connection.client].conn = "destroyed"]
                       /\ notified' = updateDatabaseStatus(merchantId, "disconnected", 0)
                       /\ response' = [request |-> "disconnect", merchantId |-> merchantId,
                                       code |-> 200, status |-> "disconnected"]
                  ELSE /\ notified' = <<>>
                       /\ response' = [request |-> "disconnect", merchantId |-> merchantId,
                                       code |-> 500, status |-> "Failed to disconnect"]
                       /\ UNCHANGED sockets
           ELSE /\ notified' = updateDatabaseStatus(merchantId, "disconnected", 0)
                /\ response' = [request |-> "disconnect", merchantId |-> merchantId,
                                code |-> 200, status |-> "disconnected"]
                /\ UNCHANGED sockets
      /\ UNCHANGED <<messageStores, messageSendTimestamps, deliveryConfirmations,
                     qrRenders, timers, calls, nextMsgId, now>>

(***************************************************************************)
(* SpecWeb: the whatsapp-web.js server from its start.                     *)
(***************************************************************************)
\* Client objects made in one run.
MaxClients == 2

InitWeb ==
  /\ connections = [m \in Merchants |-> None]
  /\ qrCodes = [m \in Merchants |-> None]
  /\ messageStores = [m \in Merchants |-> None]
  /\ messageSendTimestamps = Empty
  /\ deliveryConfirmations = Empty
  /\ sessionFiles = [m \in Merchants |-> "absent"]
  /\ sockets = <<>>
  /\ qrRenders = {}
  /\ timers = [m \in Merchants |-> 0]
  /\ calls = <<>>
  /\ notified = <<>>
  /\ response = None
  /\ nextMsgId = 1
  /\ now = StartTime

NextWeb ==
  \/ \E m \in Merchants :
       /\ IsConnected(m) \/ Len(sockets) < MaxClients
       /\ authStart(m)
  \/ \E c \in 1..Len(sockets), ok \in BOOLEAN : WebInitResult(c, ok)
  \/ \E c \in 1..Len(sockets) : WebRetry(c)
  \/ \E c \in 1..Len(sockets), rendered \in BOOLEAN : WebQr(c, rendered)
  \/ \E c \in 1..Len(sockets) : WebReady(c)
  \/ \E c \in 1..Len(sockets) : WebDisconnected(c)
  \/ \E c \in 1..Len(sockets) : WebWatchdog(c)
  \/ \E m \in Merchants : Len(sockets) < MaxClients /\ WebRetryTimer(m)
  \/ \E m \in Merchants, ok \in BOOLEAN : disconnectClient(m, ok)

SpecWeb == InitWeb /\ [][NextWeb]_vars

(***************************************************************************)
(* SpecNotify: the events of the sockets that auth requests make, the      *)
(* incoming messages on the open ones included.                            *)
(***************************************************************************)
\* Sockets made, and messages received, in one run.
MaxAttempts == 1

MaxUpserts == 1

NextNotify ==
  \/ \E m \in Merchants :
       /\ IsConnected(m) \/ Len(sockets) < MaxAttempts
       /\ handleAuth(m)
  \/ \E s \in 1..Len(sockets) : QrEvent(s)
  \/ \E s \in 1..Len(sockets), rendered \in BOOLEAN : QrRendered(s, rendered)
  \/ \E s \in 1..Len(sockets) : OpenEvent(s)
  \/ \E s \in 1..Len(sockets), r \in Reasons : CloseEvent(s, r)
  \/ \E s \in 1..Len(sockets) :
       /\ nextMsgId <= MaxUpserts
       /\ MessagesUpsert(s, FirstUpsert(nextMsgId))

SpecNotify == Init /\ [][NextNotify]_vars

(***************************************************************************)
(* SpecResolve: the getMessage callback the socket is configured with,     *)
(* called on stores of a few messages.  A message id is kept as the list   *)
(* id.split('_') gives; a part is "LID" or a piece without that text.      *)
(***************************************************************************)
\* Messages in the store when the callback is called.
MaxStored == 2

IdParts == {"LID", "3A", "3B"}

ResolveIds == {<<a>> : a \in IdParts} \cup {<<a, b>> : a, b \in IdParts}

\* String.prototype.includes for a text that is one part of an id.
includes(id, part) == \E i \in 1..Len(id) : id[i] = part

\* The first entry of store.messages whose id includes lidBase.
partialMatch(store, lidBase) ==
  LET hits == {i \in 1..Len(store.messages) : includes(store.messages[i][1], lidBase)}
  IN  IF hits = {} THEN None
      ELSE store.messages[CHOOSE i \in hits : \A j \in hits : i <= j][2]

\* getMessage: async (key) => ...  The two retries for a recent key read
\* the same entry of the same store again.
getMessageCallback(store, key) ==
  IF store = None THEN None
  ELSE LET isLidMessage == includes(key.id, "LID")
           lidMessage == getMessage(store, key)
           lidBase == key.id[1]
           message == getMessage(store, key)
       IN  IF isLidMessage /\ lidMessage # None THEN lidMessage
           ELSE IF isLidMessage /\ partialMatch(store, lidBase) # None
                  THEN partialMatch(store, lidBase)
                  ELSE message

\* The protocol client asks for the message of a key on socket s.
GetMessage(s, key) ==
  /\ response' = [request |-> "getMessage", merchantId |-> Merchant(s), key |-> key,
                  result |-> getMessageCallback(messageStores[Merchant(s)], key)]
  /\ notified' = <<>>
  /\ UNCHANGED <<connections, qrCodes, messageStores, messageSendTimestamps,
                 deliveryConfirmations, sessionFiles, sockets, qrRenders, timers,
                 calls, nextMsgId, now>>

ResolveMessage(id) ==
  [key |-> [id |-> id, remoteJid |-> JidSeq[1], fromMe |-> FALSE],
   message |-> "p1", messageTimestamp |-> 1]

\* The stores that storing up to MaxStored messages gives.
RECURSIVE StoresOf(_)
StoresOf(n) ==
  IF n = 0 THEN {MessageStore(MerchantSeq[1])}
  ELSE StoresOf(n - 1)
         \cup {storeMessage(st, ResolveMessage(id)) :
                 st \in StoresOf(n - 1), id \in ResolveIds}

InitResolve ==
  /\ connections = [m \in Merchants |->
                      IF SocketOf(m) = 1 THEN connectionInfo(1, m) ELSE None]
  /\ qrCodes = [m \in Merchants |-> None]
  /\ messageStores \in {[m \in Merchants |-> IF SocketOf(m) = 1 THEN st ELSE None] :
                          st \in StoresOf(MaxStored)}
  /\ messageSendTimestamps = Empty
  /\ deliveryConfirmations = Empty
  /\ sessionFiles = [m \in Merchants |->
                       IF SocketOf(m) = 1 THEN "paired" ELSE "absent"]
  /\ sockets = <<[merchantId |-> MerchantSeq[1], conn |-> "open",
                  paired |-> FALSE, qrShown |-> TRUE]>>
  /\ qrRenders = {}
  /\ timers = [t \in TimerKinds |-> 0]
  /\ calls = <<>>
  /\ notified = <<>>
  /\ response = None
  /\ nextMsgId = 1
  /\ now = StartTime

NextResolve ==
  \E id \in ResolveIds, fromMe \in BOOLEAN :
    GetMessage(1, [id |-> id, remoteJid |-> JidSeq[1], fromMe |-> fromMe])

SpecResolve == InitResolve /\ [][NextResolve]_vars

(***************************************************************************)
(* SpecUpsert: messages.upsert events with messages of every kind: sent by *)
(* the account itself or not, with a payload or without one.               *)
(***************************************************************************)
\* Messages observed in one run.
MaxObserved == 4

\* message.message of a message without payload is undefined, "" here.
Observed(id) ==
  {[key |-> [id |-> id, remoteJid |-> JidSeq[1], fromMe |-> fromMe],
    message |-> payload, messageTimestamp |-> 1] :
     fromMe \in BOOLEAN, payload \in {"", "p1"}}

NextUpsert ==
  \E message \in Observed(nextMsgId) :
    /\ nextMsgId <= MaxObserved
    /\ MessagesUpsert(1, message)

SpecUpsert == InitCache /\ [][NextUpsert]_vars

(***************************************************************************)
(* The claims.                                                             *)
(***************************************************************************)
HasOpenSocket(merchantId) ==
  \E s \in 1..Len(sockets) : Merchant(s) = merchantId /\ sockets[s].conn = "open"

SessionOpen(merchantId) ==
  IsConnected(merchantId) /\ sockets[connections[merchantId].socket].conn = "open"

\* Reconnect callbacks pending for a merchant.
scheduled(t, merchantId) == t[<<merchantId, 1000>>] + t[<<merchantId, 3000>>]

Upserts ==
  {FirstUpsert(id) : id \in 1..MaxMsgId}
    \cup {SecondUpsert(id, jid) : id \in 1..MaxMsgId, jid \in Jids}

\* C1: a receipt event arriving on one merchant's socket changes only the
\* delivery records created by that merchant's own sends; the records of
\* every other merchant stay as they were.
ReceiptChangesOwnRecordsOnly ==
  [][\A s \in 1..Len(sockets), id \in 1..MaxMsgId, r \in Receipts :
       ReceiptUpdate(s, id, r) =>
         \A k \in DOMAIN deliveryConfirmations :
           deliveryConfirmations[k].merchantId # Merchant(s) =>
             deliveryConfirmations'[k] = deliveryConfirmations[k]]_vars

\* C2: a send for a merchant that has no open socket fails with the
\* not-connected error and never reaches the protocol client's sendMessage,
\* also when the merchant was open earlier.
SendNeedsOpenSession ==
  [][\A m \in Merchants, to \in RawRecipients :
       (handleMessage(m, to) /\ ~HasOpenSocket(m)) =>
         LET call == calls'[Len(calls')]
         IN  /\ call.pc = "failed"
             /\ call.error = "WhatsApp not connected for this merchant"
             /\ call.sends = 0]_vars

\* C3: a close event with reason loggedOut ends the session (socket closed,
\* registry entry, QR code and store removed, disconnected notified) and
\* schedules no reconnect; a close event with any other reason schedules
\* exactly one reconnect, for the socket's merchant.
CloseSchedulesReconnect ==
  [][\A s \in 1..Len(sockets), r \in Reasons :
       (sockets[s].conn # "close" /\ sockets'[s].conn = "close"
          /\ CloseEvent(s, r)) =>
         /\ sockets'[s].conn = "close"
         /\ \A m \in Merchants \ {Merchant(s)} :
              scheduled(timers', m) = scheduled(timers, m)
         /\ IF r = DisconnectReason.loggedOut
              THEN /\ scheduled(timers', Merchant(s)) = scheduled(timers, Merchant(s))
                   /\ connections'[Merchant(s)] = None
                   /\ qrCodes'[Merchant(s)] = None
                   /\ messageStores'[Merchant(s)] = None
                   /\ notified' = <<[merchantId |-> Merchant(s),
                                     event |-> "disconnected", socket |-> 0,
                                     threw |-> FALSE]>>
              ELSE scheduled(timers', Merchant(s)) = scheduled(timers, Merchant(s)) + 1]_vars

\* One socket has closed for a recoverable reason and its reconnect is
\* pending; another has just closed with loggedOut.
CloseSchedulesReconnectWitness ==
  /\ \E m \in Merchants : scheduled(timers, m) = 1
  /\ response = None
  /\ \E s \in 1..Len(sockets) :
       /\ sockets[s].conn = "close"
       /\ scheduled(timers, Merchant(s)) = 0
       /\ notified = <<[merchantId |-> Merchant(s), event |-> "disconnected",
                        socket |-> 0, threw |-> FALSE]>>

\* C4: of two sends to the same merchant and recipient, when the second is
\* called after the first has been dispatched and less than MIN_DELAY_MS
\* after that dispatch, the second is dispatched no earlier than the first
\* dispatch plus MIN_DELAY_MS.
SecondSendWaits ==
  \A c1, c2 \in 1..Len(calls) :
    (/\ c1 \in calls[c2].after
     /\ calls[c1].merchantId = calls[c2].merchantId
     /\ calls[c1].to = calls[c2].to
     /\ calls[c2].startTime < calls[c1].sentAt + MIN_DELAY_MS
     /\ calls[c2].sends > 0)
    => calls[c2].sentAt >= calls[c1].sentAt + MIN_DELAY_MS

\* A second send was called half a window after the first one's dispatch,
\* has waited, and has been dispatched.
SecondSendWaitsWitness ==
  \E c1, c2 \in 1..Len(calls) :
    /\ c1 \in calls[c2].after
    /\ calls[c1].merchantId = calls[c2].merchantId
    /\ calls[c1].to = calls[c2].to
    /\ calls[c2].startTime = calls[c1].sentAt + Quantum
    /\ calls[c2].sends > 0
    /\ calls[c2].wake > calls[c2].startTime

\* C5: after a message is stored, a lookup of its id gives the entry just
\* stored (key, payload, timestamp), also when the id was stored before; a
\* store of another id leaves every entry as it was, unless the store made
\* the cache exceed its capacity and the entry was evicted.
StoreThenLookup ==
  [][\A msg \in Upserts :
       MessagesUpsert(1, msg) =>
         LET before == messageStores[Merchant(1)]
             after == messageStores'[Merchant(1)]
         IN  /\ getMessage(after, msg.key) =
                  [key |-> msg.key, message |-> msg.message,
                   messageTimestamp |-> msg.messageTimestamp]
             /\ \A id \in (1..MaxMsgId) \ {msg.key.id} :
                  \/ getMessage(after, [id |-> id]) = getMessage(before, [id |-> id])
                  \/ /\ getMessage(after, [id |-> id]) = None
                     /\ MapSize(before.messages) >= maxMessages]_vars

\* The cache holds an entry that was stored twice, and ids have been evicted.
StoreThenLookupWitness ==
  LET store == messageStores[Merchant(1)]
  IN  /\ Restored(store) # {}
      /\ MapSize(store.messages) < nextMsgId - 1

\* C6: a store that makes the number of entries exceed maxMessages removes
\* floor(0.2 x size) entries, namely the first ones in insertion order, and
\* a lookup of a removed id finds nothing; any other store removes nothing.
EvictsOldestFifth ==
  [][\A msg \in Upserts :
       MessagesUpsert(1, msg) =>
         LET before == MapKeys(messageStores[Merchant(1)].messages)
             staged == IF \E i \in 1..Len(before) : before[i] = msg.key.id
                         THEN before
                         ELSE Append(before, msg.key.id)
             size == Len(staged)
             after == messageStores'[Merchant(1)]
         IN  IF size > maxMessages
               THEN /\ MapKeys(after.messages) = SubSeq(staged, (size \div 5) + 1, size)
                    /\ \A i \in 1..(size \div 5) :
                         getMessage(after, [id |-> staged[i]]) = None
               ELSE MapKeys(after.messages) = staged]_vars

\* The first cleanup has just run: the oldest fifth of maxMessages + 1
\* entries is gone.
EvictsOldestFifthWitness ==
  LET store == messageStores[Merchant(1)]
  IN  /\ nextMsgId = maxMessages + 2
      /\ MapSize(store.messages) = (maxMessages + 1) - ((maxMessages + 1) \div 5)
      /\ MapKeys(store.messages)[1] = ((maxMessages + 1) \div 5) + 1

\* C7: after every store, a merchant's MessageStore holds at most
\* maxMessages entries.
SizeWithinCapacity ==
  \A m \in Merchants :
    messageStores[m] # None =>
      MapSize(messageStores[m].messages) <= messageStores[m].maxMessages

\* The cache is full again after a cleanup.
SizeWithinCapacityWitness ==
  \E m \in Merchants :
    /\ messageStores[m] # None
    /\ MapSize(messageStores[m].messages) = maxMessages
    /\ nextMsgId > maxMessages + 2

\* C8: a message id is in the id set of chat J exactly when the store holds
\* an entry for that id whose remoteJid is J.
IndexMatchesMessages ==
  \A m \in Merchants :
    messageStores[m] # None =>
      LET store == messageStores[m]
      IN  \A jid \in Jids, id \in 1..MaxMsgId :
            (MapHas(store.messagesByJid, jid) /\ id \in MapGet(store.messagesByJid, jid))
              <=> (MapHas(store.messages, id)
                     /\ MapGet(store.messages, id).key.remoteJid = jid)

\* C9: handleAuth for a merchant whose session is open answers
\* already_connected and changes nothing: the registry entry, the sockets,
\* the message store, the session files, the QR codes and the timers stay,
\* and no socket is made.
AuthWhenOpenChangesNothing ==
  [][\A m \in Merchants :
       (SessionOpen(m) /\ handleAuth(m)) =>
         /\ response'.status = "already_connected"
         /\ response'.merchantId = m
         /\ UNCHANGED <<connections, sockets, messageStores, sessionFiles,
                        qrCodes, qrRenders, timers>>]_vars

\* handleAuth has just answered already_connected for an open session.
AuthWhenOpenChangesNothingWitness ==
  /\ response # None
  /\ response.status = "already_connected"
  /\ SessionOpen(response.merchantId)

\* C10: when the QR code of a connection attempt is rendered it is stored
\* and qr_generated is notified; the open event sets the registry entry to
\* connected with the phone and the push name, clears the stored QR code and
\* notifies connected; and no qr_generated of an attempt is notified once
\* that attempt's socket is open, that is, after its connected notification.
HappyPathOrdering ==
  [][/\ \A s \in 1..Len(sockets) :
          QrRendered(s, TRUE) =>
            /\ qrCodes'[Merchant(s)] = toDataURL(s)
            /\ notified' = <<[merchantId |-> Merchant(s), event |-> "qr_generated",
                              socket |-> s, threw |-> FALSE]>>
            /\ sockets[s].conn # "open"
     /\ \A s \in 1..Len(sockets) :
          OpenEvent(s) =>
            /\ sockets'[s].conn = "open"
            /\ connections'[Merchant(s)].status = "connected"
            /\ connections'[Merchant(s)].phone = Head(SocketUser(Merchant(s)).id)
            /\ connections'[Merchant(s)].pushName = SocketUser(Merchant(s)).name
            /\ qrCodes'[Merchant(s)] = None
            /\ notified' = <<[merchantId |-> Merchant(s), event |-> "connected",
                              socket |-> s, threw |-> FALSE]>>]_vars

\* C11: a send whose delivery wait ends by the timeout returns without an
\* error, with a success result, and the result says that the delivery was
\* not confirmed.
TimeoutReturnsUnconfirmed ==
  \A c \in 1..Len(calls) :
    (calls[c].pc = "done" /\ calls[c].waitForDelivery /\ ~calls[c].confirmed) =>
      /\ calls[c].error = ""
      /\ calls[c].result.success
      /\ "confirmed" \in DOMAIN calls[c].result
      /\ calls[c].result.confirmed = FALSE

\* The sockets of a merchant that have not ended.
LiveSockets(merchantId) ==
  {s \in 1..Len(sockets) : Merchant(s) = merchantId /\ sockets[s].conn # "close"}

\* C12: at any time a merchant has at most one live protocol client.
OneLiveClientPerMerchant ==
  \A m \in Merchants : Cardinality(LiveSockets(m)) <= 1

HandleDisconnectCleansUp ==
  [][\A m \in Merchants, ok \in BOOLEAN :
       handleDisconnect(m, ok) =>
         /\ connections'[m] = None
         /\ qrCodes'[m] = None
         /\ messageStores'[m] = None
         /\ sessionFiles'[m] = "absent"]_vars

\* C15: a close event with reason loggedOut removes the merchant's registry
\* entry, its MessageStore and its stored QR code, wipes its session
\* directory and sends the "disconnected" notification.
LoggedOutCloseWipesEverything ==
  [][\A s \in DOMAIN sockets :
       (/\ sockets[s].conn \in {"connecting", "open"}
        /\ CloseEvent(s, DisconnectReason.loggedOut)) =>
         /\ connections'[Merchant(s)] = None
         /\ messageStores'[Merchant(s)] = None
         /\ qrCodes'[Merchant(s)] = None
         /\ sessionFiles'[Merchant(s)] = "absent"
         /\ \E i \in DOMAIN notified' :
              /\ notified'[i].merchantId = Merchant(s)
              /\ notified'[i].event = "disconnected"]_vars

StaleTimerStartsNothing ==
  [][\A t \in TimerKinds :
       (/\ response # None
        /\ response.request = "disconnect"
        /\ response.code = 200
        /\ response.merchantId = t[1]
        /\ ReconnectTimer(t)) =>
         /\ Len(sockets') = Len(sockets)
         /\ messageStores' = messageStores]_vars

\* The createWhatsAppConnection runs of a merchant whose socket has neither
\* opened nor closed yet.
Initializing(merchantId) ==
  {s \in 1..Len(sockets) : Merchant(s) = merchantId /\ sockets[s].conn = "connecting"}

\* C19: a merchant never has two connection attempts in progress at the
\* same time, whatever the interleaving of auth requests and reconnect
\* timers.
OneInitializingAttempt ==
  \A m \in Merchants : Cardinality(Initializing(m)) <= 1

\* SpecSend in which a step that can be taken is eventually taken: pending
\* promises settle, timers fire and time goes on.
SpecSendFair == SpecSend /\ WF_vars(NextSend)

\* Delivery records whose status is read.
ReadRecords ==
  {id \in DOMAIN deliveryConfirmations : deliveryConfirmations[id].status = "read"}

\* C20: the table of delivery records is bounded: either its size stays
\* below the number of sends made, or the records that have reached read
\* are eventually removed from it.
DeliveryRecordsBounded ==
  \/ [](Cardinality(DOMAIN deliveryConfirmations) < MaxCalls)
  \/ (ReadRecords # {}) ~> (ReadRecords = {})

\* C21: when the delivery receipt of a sent message has been processed
\* before the delivery wait times out, the wait ends as confirmed.
ReceiptBeforeTimeoutConfirms ==
  [][\A c \in 1..Len(calls) :
       (/\ calls[c].pc = "awaitDelivery"
        /\ deliveryConfirmations[calls[c].messageId].status = "delivered"
        /\ SendDeliveryTimeout(c)) =>
         calls'[c].confirmed]_vars

\* C22: of the sendMessage calls made for one merchant and recipient while
\* the session is open, each reaches socket.sendMessage at most once and any
\* two of them reach it at least MIN_DELAY_MS apart.
BurstIsSerialized ==
  \A a, b \in 1..Len(calls) :
    /\ calls[a].sends <= 1
    /\ (/\ a # b
        /\ calls[a].merchantId = calls[b].merchantId
        /\ calls[a].to = calls[b].to
        /\ calls[a].sends > 0
        /\ calls[b].sends > 0) =>
         \/ calls[a].sentAt - calls[b].sentAt >= MIN_DELAY_MS
         \/ calls[b].sentAt - calls[a].sentAt >= MIN_DELAY_MS

\* C23: once a disconnect request for a merchant has been answered with
\* success, a socket the merchant had before the request does not open and
\* no registry entry or QR code appears for the merchant.
DisconnectStopsInitialization ==
  [][\A s \in 1..Len(sockets) :
       (/\ response # None
        /\ response.request = "disconnect"
        /\ response.code = 200
        /\ response.merchantId = Merchant(s)) =>
         /\ sockets[s].conn = "close"
         /\ ~OpenEvent(s)
         /\ \A rendered \in BOOLEAN : ~QrRendered(s, rendered)]_vars

\* C24: a merchant that is registered as connected has no stored QR code.
ConnectedHasNoQrCode ==
  \A m \in Merchants : IsConnected(m) => qrCodes[m] = None

\* C25: the timestamp messageSendTimestamps holds for a merchant and
\* recipient is the time of a dispatch that did not fail, and only accepted
\* dispatches have a delivery record.
LedgerHoldsLastSuccess ==
  /\ \A c \in 1..Len(calls) :
       LET key == lastSentKey(calls[c].merchantId, calls[c].to)
       IN  key \in DOMAIN messageSendTimestamps =>
             \E d \in 1..Len(calls) :
               /\ lastSentKey(calls[d].merchantId, calls[d].to) = key
               /\ calls[d].sends > 0
               /\ calls[d].sentAt = messageSendTimestamps[key]
               /\ calls[d].pc # "failed"
  /\ \A id \in DOMAIN deliveryConfirmations :
       \E c \in 1..Len(calls) :
         calls[c].messageId = id /\ calls[c].pc \in {"awaitDelivery", "done"}

\* The calls for a merchant and recipient whose socket.sendMessage rejected.
ProtocolFailures(merchantId, to) ==
  {c \in 1..Len(calls) : /\ calls[c].merchantId = merchantId
                          /\ calls[c].to = to
                          /\ calls[c].pc = "failed"
                          /\ calls[c].sends > 0}

\* C26: a call whose socket.sendMessage rejects has called it once, ends
\* with the error, and adds one to the failure counter of its merchant and
\* recipient; nothing else adds to that counter.
FailureCounterCountsSendFailures ==
  \A c \in 1..Len(calls) :
    LET key == errorKey(calls[c].merchantId, calls[c].to)
        errorCount == IF key \in DOMAIN messageSendTimestamps
                        THEN messageSendTimestamps[key] ELSE 0
    IN  /\ calls[c].sends <= 1
        /\ calls[c].pc = "failed" => calls[c].error # ""
        /\ errorCount = Cardinality(ProtocolFailures(calls[c].merchantId, calls[c].to))

\* The place of a status on the way sent -> delivered -> read.
StatusRank(status) ==
  IF status = "sent" THEN 0 ELSE IF status = "delivered" THEN 1 ELSE 2

\* C27: no step moves the status of a delivery record backwards: a record
\* that is read does not become delivered or sent again, and one that is
\* delivered does not become sent again.
StatusMovesForward ==
  [][\A id \in DOMAIN deliveryConfirmations :
       /\ id \in DOMAIN deliveryConfirmations'
       /\ StatusRank(deliveryConfirmations'[id].status)
            >= StatusRank(deliveryConfirmations[id].status)]_vars

\* C28: the getMessage callback answers a key with the stored entry of that
\* message id or with undefined, never with the entry of another id, and
\* leaves the store as it was.
ResolvesRequestedIdOnly ==
  (response # None /\ response.request = "getMessage") =>
    \/ response.result = None
    \/ response.result.key.id = response.key.id

\* C29: every message of a messages.upsert event is in the merchant's
\* store afterwards, and a message_received notification is made for it
\* exactly when the message was not sent by the account itself.
EveryMessageStoredAndNotified ==
  [][\A message \in Observed(nextMsgId) :
       MessagesUpsert(1, message) =>
         /\ getMessage(messageStores'[Merchant(1)], message.key) # None
         /\ (\E i \in DOMAIN notified' : notified'[i].event = "message_received")
              <=> ~message.key.fromMe]_vars

MaxStarted == 2

\* createWhatsAppConnection(merchantId) when useMultiFileAuthState or
\* makeWASocket throws: the store has been replaced, no socket is made and
\* the catch block rethrows.
createWhatsAppConnectionThrows(merchantId) ==
  /\ messageStores' = [messageStores EXCEPT ![merchantId] = MessageStore(merchantId)]
  /\ UNCHANGED <<sessionFiles, sockets>>

\* The setTimeout callback of a recoverable close when the creation throws:
\* .catch logs "Reconnection failed" and nothing else is done.
ReconnectTimerFails(t) ==
  /\ timers[t] > 0
  /\ timers' = [timers EXCEPT ![t] = @ - 1]
  /\ createWhatsAppConnectionThrows(t[1])
  /\ notified' = <<>>
  /\ response' = None
  /\ UNCHANGED <<connections, qrCodes, messageSendTimestamps,
                 deliveryConfirmations, qrRenders, calls, nextMsgId, now>>

NextReconnect ==
  \/ \E m \in Merchants :
       /\ IsConnected(m) \/ Len(sockets) < MaxStarted
       /\ handleAuth(m)
  \/ \E s \in 1..Len(sockets) : QrEvent(s)
  \/ \E s \in 1..Len(sockets) : QrRendered(s, TRUE)
  \/ \E s \in 1..Len(sockets) : OpenEvent(s)
  \/ \E s \in 1..Len(sockets), r \in Reasons : CloseEvent(s, r)
  \/ \E t \in TimerKinds : Len(sockets) < MaxStarted /\ ReconnectTimer(t)
  \/ \E t \in TimerKinds : ReconnectTimerFails(t)

SpecReconnect == Init /\ [][NextReconnect]_vars

\* C32: a reconnect attempt that fails to create a connection schedules
\* another attempt: the step that uses up a merchant's reconnect callback
\* without making a socket leaves the merchant with as many pending
\* callbacks as before.
FailedReconnectReschedules ==
  [][\A t \in TimerKinds :
       (timers'[t] < timers[t] /\ Len(sockets') = Len(sockets)) =>
         scheduled(timers', t[1]) >= scheduled(timers, t[1])]_vars

\* C33: when the qr handler of a socket has run, whether the code could be
\* rendered to an image or not, the merchant has a stored code of that
\* socket and the notifier has been called with it.
QrStoredEvenIfRenderFails ==
  [][\A s \in 1..Len(sockets) :
       (s \in qrRenders /\ s \notin qrRenders') =>
         /\ qrCodes'[Merchant(s)] # None
         /\ qrCodes'[Merchant(s)].qr = s
         /\ notified' # <<>>]_vars

\* SpecSend in which time goes on and every pending promise of a call
\* settles: the rate-limit timer, socket.sendMessage and the delivery
\* timeout.
SpecSendLive ==
  /\ SpecSend
  /\ WF_vars(\E t \in TimerInstants : Tick(t))
  /\ \A c \in 1..MaxCalls :
       /\ WF_vars(SendWake(c))
       /\ WF_vars(\E accepted \in BOOLEAN : SendResult(c, accepted))
       /\ WF_vars(SendDeliveryTimeout(c))

\* C34: every sendMessage call ends.  A call suspended by the rate limit
\* resumes at most MIN_DELAY_MS later, a call waiting for the delivery
\* receipt at most DELIVERY_TIMEOUT_MS later, and every call made
\* eventually has returned a result or thrown an error.
SendTerminates ==
  /\ [](\A c \in 1..Len(calls) :
          /\ calls[c].pc = "waiting" => calls[c].wake - now <= MIN_DELAY_MS
          /\ calls[c].pc = "awaitDelivery" =>
               calls[c].deadline - now <= DELIVERY_TIMEOUT_MS)
  /\ \A c \in 1..MaxCalls :
       (Len(calls) >= c) ~>
         (/\ Len(calls) >= c
          /\ calls[c].pc \in {"done", "failed"}
          /\ calls[c].pc = "done" <=> calls[c].result # None
          /\ calls[c].pc = "failed" <=> calls[c].error # "")

\* A call that was held back by the rate limit, then waited for the
\* delivery receipt until the timeout, has returned.
SendTerminatesWitness ==
  \E c \in 1..Len(calls) :
    /\ calls[c].pc = "done"
    /\ calls[c].wake > calls[c].startTime
    /\ ~calls[c].confirmed
    /\ calls[c].deadline <= now

\* C35: the delivery wait is optional: the sendMessage call a message
\* request makes, which asks for no delivery wait, is one that returns once
\* the message is dispatched; a call waits only when its options ask for it.
DeliveryWaitOnlyOnRequest ==
  [][\A m \in Merchants, to \in RawRecipients :
       handleMessage(m, to) =>
         (calls'[Len(calls')].waitForDelivery <=>
            NoOptions.waitForDelivery = "true")]_vars

\* C36: a registry entry with status connected holds a live handle: the
\* socket it names is the one made last for the merchant and that socket is
\* open, so that after a close event the merchant is not reported connected
\* before the next open.
ConnectedEntryIsLive ==
  \A m \in Merchants :
    IsConnected(m) =>
      /\ sockets[connections[m].socket].conn = "open"
      /\ \A s \in 1..Len(sockets) :
           Merchant(s) = m => s <= connections[m].socket

\* A socket of a merchant for whom a newer socket has been made.
Superseded(s) ==
  \E newer \in 1..Len(sockets) : newer > s /\ Merchant(newer) = Merchant(s)

\* C37: the events of a superseded socket do nothing to the merchant's
\* current session: its open, close and qr events leave the registry entry,
\* the stored QR code and the message store as they are and schedule no
\* reconnect.
SupersededEventsChangeNothing ==
  [][\A s \in 1..Len(sockets) :
       (/\ Superseded(s)
        /\ \/ OpenEvent(s)
           \/ \E r \in Reasons : CloseEvent(s, r)
           \/ QrRendered(s, TRUE)) =>
         /\ connections'[Merchant(s)] = connections[Merchant(s)]
         /\ qrCodes'[Merchant(s)] = qrCodes[Merchant(s)]
         /\ messageStores'[Merchant(s)] = messageStores[Merchant(s)]
         /\ scheduled(timers', Merchant(s)) = scheduled(timers, Merchant(s))]_vars

\* C38: once sendMessage has returned success with a message id, the
\* lookup of that id in the merchant's message store returns the message
\* sent.
SentMessageIsCached ==
  \A c \in 1..Len(calls) :
    (calls[c].pc = "done" /\ calls[c].result # None) =>
      /\ messageStores[calls[c].merchantId] # None
      /\ getMessage(messageStores[calls[c].merchantId],
                    [id |-> calls[c].result.messageId]) # None

\* C39: a store that triggers a cleanup does not lose its own message:
\* right after a store that evicted entries, the lookup of the stored id
\* gives the entry just stored.
EvictingStoreKeepsItsMessage ==
  [][\A msg \in Upserts :
       MessagesUpsert(1, msg) =>
         LET before == messageStores[Merchant(1)]
             after == messageStores'[Merchant(1)]
             evicted == {id \in 1..MaxMsgId :
                           /\ getMessage(before, [id |-> id]) # None
                           /\ getMessage(after, [id |-> id]) = None}
         IN  evicted # {} =>
               /\ msg.key.id \notin evicted
               /\ getMessage(after, msg.key) =
                    [key |-> msg.key, message |-> msg.message,
                     messageTimestamp |-> msg.messageTimestamp]]_vars

\* The store of message maxMessages + 1 has just evicted the oldest entries
\* and that message is in the cache.
EvictingStoreKeepsItsMessageWitness ==
  LET store == messageStores[Merchant(1)]
  IN  /\ nextMsgId = maxMessages + 2
      /\ getMessage(store, [id |-> 1]) = None
      /\ getMessage(store, [id |-> maxMessages + 1]) # None

\* C40: the order in which entries are evicted is the order of their first
\* insertion: a store of an id the cache holds replaces the entry where it
\* is, so the keys stay in the order in which the ids first arrived (ids
\* are numbered by arrival).
RestoreKeepsPosition ==
  [][\A msg \in Upserts :
       MessagesUpsert(1, msg) =>
         LET before == MapKeys(messageStores[Merchant(1)].messages)
             after == MapKeys(messageStores'[Merchant(1)].messages)
         IN  /\ MapHas(messageStores[Merchant(1)].messages, msg.key.id) =>
                  /\ after = before
                  /\ getMessage(messageStores'[Merchant(1)], msg.key).message =
                       msg.message
             /\ \A i, j \in 1..Len(after) : i < j => after[i] < after[j]]_vars

\* The cache is full, ids have been evicted, and its oldest entry is one
\* that was stored a second time after newer ids had arrived: the next
\* cleanup removes it first.
RestoreKeepsPositionWitness ==
  LET store == messageStores[Merchant(1)]
  IN  /\ MapSize(store.messages) = maxMessages
      /\ store.messages[1][1] > 1
      /\ store.messages[1][2].message = "p2"

====
